---- MODULE Spec2Model ----
(***************************************************************************)
(* Model of app_final_fixed.py: the SMART CVD risk-reduction wizard.       *)
(*                                                                         *)
(*   Spec      the Streamlit session: one script run per user interaction  *)
(*   SpecLDL   calculate_ldl_projection on IEEE-754 doubles                *)
(*   SpecRisk  estimate_10y_risk, convert_5yr, estimate_lifetime_risk and  *)
(*             the results step's derived values                           *)
(*                                                                         *)
(* Decimal quantities are integers in the unit their definition names     *)
(* (tenths of a percent, hundredths of a mmol/L).                          *)
(***************************************************************************)
EXTENDS Integers, Sequences, FiniteSets, TLC

VARIABLES
    session,      \* st.session_state: field name -> value
    shown,        \* widgets (and buttons) the last script run rendered
    error,        \* exception that ended the last script run, or "none"
    clicked,      \* the widget whose interaction triggered the last script run
    baseline_ldl, \* calculate_ldl_projection's baseline, in hundredths of a mmol/L
    pre_list,     \* its pre_list
    new_list,     \* its new_list
    post_ldl,     \* the double it returned
    pc,           \* SpecRisk: "app" or "direct" before the call, "done" after
    age,          \* the age passed to the risk functions
    raw,          \* 1 - 0.900**exp(lp - 5.8) in estimate_10y_risk, in 1/10000
    r10,          \* ten-year risk, in tenths of a percent
    r5,           \* convert_5yr's result
    rlt,          \* estimate_lifetime_risk's result
    lifetime,     \* the results step's lifetime text
    chart_y,      \* the lifetime bar of the results step's chart
    arr10,        \* the results step's ARR
    rrr10         \* the results step's RRR

wizardVars == <<session, shown, error, clicked>>

ldlVars == <<baseline_ldl, pre_list, new_list, post_ldl>>

riskVars == <<pc, age, raw, r10, r5, rlt, lifetime, chart_y, arr10, rrr10>>

vars ==
    <<session, shown, error, clicked, baseline_ldl, pre_list, new_list, post_ldl,
      pc, age, raw, r10, r5, rlt, lifetime, chart_y, arr10, rrr10>>

\* The variables of the other specifications, at rest.
WizardIdle == session = <<>> /\ shown = {} /\ error = "none" /\ clicked = "none"

LdlIdle == baseline_ldl = 0 /\ pre_list = <<>> /\ new_list = <<>> /\ post_ldl = 0

RiskIdle ==
    /\ pc = "idle" /\ age = 0 /\ raw = 0 /\ r10 = <<>> /\ r5 = <<>> /\ rlt = <<>>
    /\ lifetime = <<>> /\ chart_y = <<>> /\ arr10 = <<>> /\ rrr10 = <<>>

-----------------------------------------------------------------------------
(* Natural numbers of any size: little-endian sequences of limbs in base   *)
(* 2^14, without leading zero limbs; <<>> is 0. Python's int and the exact  *)
(* value of a float are such numbers.                                      *)

Base == 2 ^ 14

RECURSIVE Pow2(_)
Pow2(k) == IF k = 0 THEN 1 ELSE 2 * Pow2(k - 1)

RECURSIVE Norm(_)
Norm(x) ==
    IF x = <<>> THEN <<>>
    ELSE IF x[Len(x)] = 0 THEN Norm(SubSeq(x, 1, Len(x) - 1)) ELSE x

BigOf(n) == IF n = 0 THEN <<>> ELSE IF n < Base THEN <<n>> ELSE <<n % Base, n \div Base>>

RECURSIVE MulSmallC(_, _, _)
MulSmallC(x, s, c) ==
    IF x = <<>> THEN (IF c = 0 THEN <<>> ELSE <<c>>)
    ELSE LET v == Head(x) * s + c
         IN  <<v % Base>> \o MulSmallC(Tail(x), s, v \div Base)

\* x * s for 0 <= s <= Base.
MulSmall(x, s) == IF s = 0 THEN <<>> ELSE MulSmallC(x, s, 0)

RECURSIVE AddC(_, _, _)
AddC(x, y, c) ==
    IF x = <<>> /\ y = <<>> THEN (IF c = 0 THEN <<>> ELSE <<c>>)
    ELSE LET a == IF x = <<>> THEN 0 ELSE Head(x)
             b == IF y = <<>> THEN 0 ELSE Head(y)
             v == a + b + c
         IN  <<v % Base>> \o AddC(IF x = <<>> THEN x ELSE Tail(x),
                                  IF y = <<>> THEN y ELSE Tail(y), v \div Base)

AddBig(x, y) == AddC(x, y, 0)

RECURSIVE SubC(_, _, _)
SubC(x, y, c) ==
    IF x = <<>> THEN <<>>
    ELSE LET b == IF y = <<>> THEN 0 ELSE Head(y)
             v == Head(x) - b - c
         IN  <<v % Base>> \o SubC(Tail(x), IF y = <<>> THEN y ELSE Tail(y),
                                  IF v < 0 THEN 1 ELSE 0)

\* x - y for x >= y.
SubBig(x, y) == Norm(SubC(x, y, 0))

RECURSIVE CmpFrom(_, _, _)
CmpFrom(x, y, i) ==
    IF i = 0 THEN 0
    ELSE IF x[i] < y[i] THEN -1
    ELSE IF x[i] > y[i] THEN 1
    ELSE CmpFrom(x, y, i - 1)

\* -1, 0 or 1 as x <, = or > y.
CmpBig(x, y) ==
    IF Len(x) < Len(y) THEN -1
    ELSE IF Len(x) > Len(y) THEN 1
    ELSE CmpFrom(x, y, Len(x))

Zeros(k) == [i \in 1..k |-> 0]

RECURSIVE MulFrom(_, _, _)
MulFrom(x, y, i) ==
    IF i > Len(y) THEN <<>>
    ELSE AddBig(Zeros(i - 1) \o MulSmall(x, y[i]), MulFrom(x, y, i + 1))

MulBig(x, y) == Norm(MulFrom(x, y, 1))

\* Quotient and remainder of x by d, 0 < d <= Base, from the top limb down.
RECURSIVE DivFrom(_, _, _, _)
DivFrom(x, d, i, r) ==
    IF i = 0 THEN [q |-> <<>>, r |-> r]
    ELSE LET cur  == r * Base + x[i]
             rest == DivFrom(x, d, i - 1, cur % d)
         IN  [q |-> Append(rest.q, cur \div d), r |-> rest.r]

DivSmall(x, d) ==
    LET res == DivFrom(x, d, Len(x), 0) IN [q |-> Norm(res.q), r |-> res.r]

RECURSIVE BitLenSmall(_)
BitLenSmall(n) == IF n = 0 THEN 0 ELSE 1 + BitLenSmall(n \div 2)

BitLen(x) == IF x = <<>> THEN 0 ELSE 14 * (Len(x) - 1) + BitLenSmall(x[Len(x)])

\* x * 2^k and floor(x / 2^k).
ShiftLeft(x, k) ==
    IF x = <<>> THEN <<>> ELSE Zeros(k \div 14) \o MulSmall(x, Pow2(k % 14))

ShiftRight(x, k) ==
    IF k \div 14 >= Len(x) THEN <<>>
    ELSE DivSmall(SubSeq(x, k \div 14 + 1, Len(x)), Pow2(k % 14)).q

\* Whether bit k of x (bit 0 the lowest) is set, and whether any bit below
\* bit k is.
BitSet(x, k) ==
    /\ k \div 14 < Len(x)
    /\ (x[k \div 14 + 1] \div Pow2(k % 14)) % 2 = 1

AnyBitBelow(x, k) ==
    \/ \E i \in 1..Len(x) : i <= k \div 14 /\ x[i] # 0
    \/ /\ k \div 14 < Len(x)
       /\ x[k \div 14 + 1] % Pow2(k % 14) # 0

-----------------------------------------------------------------------------
(* IEEE-754 binary64, the type of a Python float. A positive normal value  *)
(* is [m, e] with 2^52 <= m < 2^53 and value m * 2^e; the values here stay  *)
(* far from the subnormal and overflow ranges.                             *)

\* n * 2^e (any extra nonzero digits below n flagged by sticky) rounded to
\* the nearest double, ties to even.
RoundToDouble(n, e, sticky) ==
    LET L == BitLen(n)
    IN  IF L <= 53 THEN [m |-> ShiftLeft(n, 53 - L), e |-> e - (53 - L)]
        ELSE LET s    == L - 53
                 q    == ShiftRight(n, s)
                 half == BitSet(n, s - 1)
                 rest == sticky \/ AnyBitBelow(n, s - 1)
                 up   == half /\ (rest \/ BitSet(q, 0))
                 m    == IF up THEN AddBig(q, <<1>>) ELSE q
             IN  IF BitLen(m) = 54 THEN [m |-> ShiftRight(m, 1), e |-> e + s + 1]
                 ELSE [m |-> m, e |-> e + s]

\* The double a decimal literal n/d denotes (0 < n, d < Base).
DOfDecimal(n, d) ==
    LET res == DivSmall(ShiftLeft(BigOf(n), 70), d)
    IN  RoundToDouble(res.q, -70, res.r # 0)

\* a * b.
DMul(a, b) == RoundToDouble(MulBig(a.m, b.m), a.e + b.e, FALSE)

\* a < b.
DLess(a, b) == a.e < b.e \/ (a.e = b.e /\ CmpBig(a.m, b.m) < 0)

\* a - b for a > b.
DSub(a, b) ==
    LET e == IF a.e < b.e THEN a.e ELSE b.e
    IN  RoundToDouble(SubBig(ShiftLeft(a.m, a.e - e), ShiftLeft(b.m, b.e - e)),
                      e, FALSE)

DMax(a, b) == IF DLess(a, b) THEN b ELSE a

-----------------------------------------------------------------------------
(* calculate_ldl_projection: lines 82-92.                                  *)

\* The keys of TRIALS, lines 70-79.
TRIALS ==
    {"Atorvastatin 80 mg", "Rosuvastatin 20 mg", "Ezetimibe 10 mg",
     "Bempedoic acid", "PCSK9 inhibitor", "Inclisiran", "Icosapent ethyl",
     "Semaglutide"}

\* The reduction factors, in hundredths (0.18 -> 18).
E ==
    [d \in {"Atorvastatin 80 mg", "Rosuvastatin 20 mg", "Ezetimibe 10 mg",
            "Bempedoic acid", "PCSK9 inhibitor", "Inclisiran"} |->
        CASE d = "Atorvastatin 80 mg" -> 50
          [] d = "Rosuvastatin 20 mg" -> 55
          [] d = "Ezetimibe 10 mg" -> 20
          [] d = "Bempedoic acid" -> 18
          [] d = "PCSK9 inhibitor" -> 60
          [] d = "Inclisiran" -> 55]

DOne == DOfDecimal(1, 1)

DHalf == DOfDecimal(5, 10)

\* A slip: the loop multiplies by E[drug] itself.
FactorIsReduction == [d \in DOMAIN E |-> DOfDecimal(E[d], 100)]

\* 1 - E[drug], the subtraction rounded as the float subtraction is.
Factor == [d \in DOMAIN E |-> DSub(DOne, DOfDecimal(E[d], 100))]

\* A slip: E.get(drug, 0.5) in place of the membership test.
RECURSIVE ApplyDrugsDefaulting(_, _, _)
ApplyDrugsDefaulting(ldl, drugs, i) ==
    IF i > Len(drugs) THEN ldl
    ELSE ApplyDrugsDefaulting(
            DMul(ldl, IF drugs[i] \in DOMAIN E THEN Factor[drugs[i]] ELSE DHalf),
            drugs, i + 1)

\* The loop of lines 89-91 from drugs[i] on.
RECURSIVE ApplyDrugs(_, _, _)
ApplyDrugs(ldl, drugs, i) ==
    IF i > Len(drugs) THEN ldl
    ELSE IF drugs[i] \in DOMAIN E
         THEN ApplyDrugs(DMul(ldl, Factor[drugs[i]]), drugs, i + 1)
         ELSE ApplyDrugs(ldl, drugs, i + 1)

\* A slip: the floor left out.
ProjectionWithoutFloor(baseline, pre, new) == ApplyDrugs(baseline, pre \o new, 1)

calculate_ldl_projection(baseline, pre, new) ==
    DMax(ApplyDrugs(baseline, pre \o new, 1), DHalf)

\* Inputs: baselines from 0.01 to 6.00 mmol/L, and every identifier of
\* TRIALS, the placeholder "None" and an identifier the program never uses.
Baselines == {1, 250, 300, 600}

Identifiers == TRIALS \cup {"None", "Aspirin"}

MaxDrugs == 2

Project(b, pre, new) == calculate_ldl_projection(DOfDecimal(b, 100), pre, new)

InitLDL ==
    /\ baseline_ldl \in Baselines
    /\ pre_list = <<>>
    /\ new_list = <<>>
    /\ post_ldl = Project(baseline_ldl, <<>>, <<>>)
    /\ WizardIdle
    /\ RiskIdle

\* The caller adds an identifier to one of the lists and projects again.
AppendPre(d) ==
    /\ Len(pre_list) + Len(new_list) < MaxDrugs
    /\ pre_list' = Append(pre_list, d)
    /\ post_ldl' = Project(baseline_ldl, pre_list', new_list)
    /\ UNCHANGED <<baseline_ldl, new_list, wizardVars, riskVars>>

AppendNew(d) ==
    /\ Len(pre_list) + Len(new_list) < MaxDrugs
    /\ new_list' = Append(new_list, d)
    /\ post_ldl' = Project(baseline_ldl, pre_list, new_list')
    /\ UNCHANGED <<baseline_ldl, pre_list, wizardVars, riskVars>>

NextLDL == \E d \in Identifiers : AppendPre(d) \/ AppendNew(d)

SpecLDL == InitLDL /\ [][NextLDL]_vars

-----------------------------------------------------------------------------
(* Claims about calculate_ldl_projection, under SpecLDL.                   *)

\* C1: for every baseline > 0 and every pair of lists the value returned
\* is at least 0.5.
C1_FloorHolds == ~DLess(post_ldl, DHalf)

\* The floor acted: 3.00 * 0.4 * 0.4 = 0.48 is returned as 0.5.
C1_Witness ==
    /\ baseline_ldl = 300
    /\ pre_list = <<"PCSK9 inhibitor">>
    /\ new_list = <<"PCSK9 inhibitor">>
    /\ post_ldl = DHalf

RemoveAt(l, i) == SubSeq(l, 1, i - 1) \o SubSeq(l, i + 1, Len(l))

\* C2: an identifier that is not in the table is neutral: removing it from
\* the position it holds in either list (so also inserting it there) leaves
\* the value returned unchanged, bit for bit.
C2_UnknownNeutral ==
    /\ \A i \in 1..Len(pre_list) :
          pre_list[i] \notin DOMAIN E =>
              Project(baseline_ldl, RemoveAt(pre_list, i), new_list) = post_ldl
    /\ \A i \in 1..Len(new_list) :
          new_list[i] \notin DOMAIN E =>
              Project(baseline_ldl, pre_list, RemoveAt(new_list, i)) = post_ldl

\* projectLDL(3.0, ["None"], ["Atorvastatin 80 mg"]) is 1.5.
C2_Witness ==
    /\ baseline_ldl = 300
    /\ pre_list = <<"None">>
    /\ new_list = <<"Atorvastatin 80 mg">>
    /\ post_ldl = DOfDecimal(15, 10)

\* The exact product: the numerator of the product of (1 - factor) over the
\* table identifiers of drugs, over the denominator 100^n.
RECURSIVE ProductNum(_, _)
ProductNum(drugs, i) ==
    IF i > Len(drugs) THEN <<1>>
    ELSE IF drugs[i] \in DOMAIN E
         THEN MulSmall(ProductNum(drugs, i + 1), 100 - E[drugs[i]])
         ELSE ProductNum(drugs, i + 1)

RECURSIVE ProductDen(_, _)
ProductDen(drugs, i) ==
    IF i > Len(drugs) THEN <<1>>
    ELSE IF drugs[i] \in DOMAIN E
         THEN MulSmall(ProductDen(drugs, i + 1), 100)
         ELSE ProductDen(drugs, i + 1)

KnownCount(drugs) == Cardinality({i \in 1..Len(drugs) : drugs[i] \in DOMAIN E})

\* The value returned and max(baseline * product, 0.5), both scaled by the
\* same factor 100^n / 2^em to integers.
Compare(b, drugs, ret) ==
    LET base == DOfDecimal(b, 100)
        em0  == IF ret.e < base.e THEN ret.e ELSE base.e
        em   == IF em0 < -1 THEN em0 ELSE -1
        den  == ProductDen(drugs, 1)
        got  == MulBig(ShiftLeft(ret.m, ret.e - em), den)
        prod == MulBig(ShiftLeft(base.m, base.e - em), ProductNum(drugs, 1))
        half == ShiftLeft(den, -1 - em)
    IN  [got |-> got, want |-> IF CmpBig(prod, half) < 0 THEN half ELSE prod]

AbsDiff(x, y) == IF CmpBig(x, y) < 0 THEN SubBig(y, x) ELSE SubBig(x, y)

\* C3 as stated: the value returned is exactly max(baseline * product, 0.5),
\* so 1.2 for (3.0, [Atorvastatin 80 mg], [Ezetimibe 10 mg]) and the same
\* whatever the order of the identifiers.
C3_ExactProduct ==
    LET c == Compare(baseline_ldl, pre_list \o new_list, post_ldl)
    IN  c.got = c.want

\* C3 as amended: the value returned is max(baseline * product, 0.5) to
\* within a relative error of n * 2^-51, n the number of table identifiers
\* in the two lists: each float multiplication rounds.
C3_ProductWithinRounding ==
    LET c == Compare(baseline_ldl, pre_list \o new_list, post_ldl)
    IN  CmpBig(ShiftLeft(AbsDiff(c.got, c.want), 51),
               MulSmall(c.want, KnownCount(pre_list \o new_list))) <= 0

\* (3.0, [Atorvastatin 80 mg], [Ezetimibe 10 mg]) returns 1.5 * 0.8 as
\* floats multiply it, which is not the double 1.2.
C3_Witness ==
    /\ baseline_ldl = 300
    /\ pre_list = <<"Atorvastatin 80 mg">>
    /\ new_list = <<"Ezetimibe 10 mg">>
    /\ post_ldl = DMul(DOfDecimal(15, 10), DOfDecimal(8, 10))
    /\ post_ldl # DOfDecimal(12, 10)

-----------------------------------------------------------------------------
(* The risk functions, lines 94-113, and the results step, lines 165-188.  *)
(* A percentage with one decimal is an integer number of tenths; a value   *)
(* that may be None (or the text "N/A") is <<>> or <<x>>.                  *)

None == <<>>

Some(x) == <<x>>

RECURSIVE GCD(_, _)
GCD(a, b) == IF b = 0 THEN a ELSE GCD(b, a % b)

Min(x, y) == IF x < y THEN x ELSE y

Max(x, y) == IF x > y THEN x ELSE y

\* Decimal naturals of any size: little-endian limbs in base 1000.
DecBase == 10 ^ 3

RECURSIVE DecCarry(_, _, _)
DecCarry(v, i, c) ==
    IF i > Len(v)
    THEN IF c = 0 THEN <<>> ELSE <<c % DecBase>> \o DecCarry(v, i, c \div DecBase)
    ELSE <<(v[i] + c) % DecBase>> \o DecCarry(v, i + 1, (v[i] + c) \div DecBase)

\* x * s for 0 < s < 2^20.
DecMulSmall(x, s) == DecCarry([i \in 1..Len(x) |-> x[i] * s], 1, 0)

\* The sum of x[i] * y[k+1-i] for i in lo..hi.
RECURSIVE DecColumn(_, _, _, _, _)
DecColumn(x, y, k, lo, hi) ==
    IF lo > hi THEN 0
    ELSE x[lo] * y[k + 1 - lo] + DecColumn(x, y, k, lo + 1, hi)

\* x * y for nonzero x and y.
DecMul(x, y) ==
    DecCarry([k \in 1..(Len(x) + Len(y) - 1) |->
                 DecColumn(x, y, k, Max(1, k + 1 - Len(y)), Min(k, Len(x)))],
             1, 0)

\* s^k by squaring, 0 < s <= 2001.
RECURSIVE DecPow(_, _)
DecPow(s, k) ==
    IF k = 0 THEN <<1>>
    ELSE LET h  == DecPow(s, k \div 2)
             sq == DecMul(h, h)
         IN  IF k % 2 = 1 THEN DecMulSmall(sq, s) ELSE sq

\* x * 1000^k for nonzero x.
DecShift(x, k) == [i \in 1..k |-> 0] \o x

DecCmp(x, y) ==
    IF Len(x) < Len(y) THEN -1
    ELSE IF Len(x) > Len(y) THEN 1
    ELSE CmpFrom(x, y, Len(x))

\* The least m in lo..hi with (2m+1)^q * 1000^p > bound, where the
\* condition fails below it and holds from it on.
RECURSIVE FirstAbove(_, _, _, _, _)
FirstAbove(lo, hi, q, p, bound) ==
    IF lo = hi THEN lo
    ELSE LET mid == (lo + hi) \div 2
         IN  IF DecCmp(DecShift(DecPow(2 * mid + 1, q), p), bound) <= 0
             THEN FirstAbove(mid + 1, hi, q, p, bound)
             ELSE FirstAbove(lo, mid, q, p, bound)

\* round(1000 * (a/1000) ** (y/10)) for 0 < a <= 1000: the integers nearest
\* to the exact power, found by comparing integer powers:
\*     m + 1/2 <= 1000 (a/1000)^(y/10)  iff  (2m+1)^q 1000^p <= 2000^q a^p
\* with p/q = y/10 in lowest terms. Where the exact power lies halfway
\* between two integers both are results: the float computation's own
\* rounding error decides which one round() sees.
RoundedSurvival(a, y) ==
    LET g     == GCD(y, 10)
        p     == y \div g
        q     == 10 \div g
        bound == DecShift(DecMulSmall(DecPow(a, p), Pow2(q)), q)
        c     == FirstAbove(0, 1000, q, p, bound)
    IN  IF c > 0 /\ DecShift(DecPow(2 * c - 1, q), p) = bound
        THEN {c - 1, c} ELSE {c}

\* round(min(raw*100, 95.0), 1) for raw = 1 - 0.900**math.exp(lp - 5.8).
\* exp and ** are not computed here: math.exp(...) is some float >= 0, so
\* 0.900**that is in [0, 1] and raw is too; rawE4 is raw in 1/10000, any
\* value of that range. A value halfway between two tenths rounds either
\* way, as the binary value of raw*100 decides.
estimate_10y_risk(rawE4) ==
    LET v == Min(rawE4, 9500)
    IN  IF v % 10 = 5 THEN {v \div 10, v \div 10 + 1}
        ELSE {(v + 5) \div 10}

\* A slip: the exponent 2 in place of 0.5.
convert_5yr_squared(t) ==
    {Min(1000 - m, 950) : m \in RoundedSurvival(1000 - Min(t, 950), 20)}

\* p = min(r10, 95.0)/100; round(min((1-(1-p)**0.5)*100, 95.0), 1).
convert_5yr(t) ==
    {Min(1000 - m, 950) : m \in RoundedSurvival(1000 - Min(t, 950), 5)}

\* A slip: the result is not capped by min(..., 95.0).
lifetime_uncapped(a, t) ==
    {1000 - m : m \in RoundedSurvival(1000 - Min(t, 950), Max(85 - a, 0))}

\* A slip: the horizon ends at 80, years = max(80-age, 0).
lifetime_to_80(a, t) ==
    {Min(1000 - m, 950) :
        m \in RoundedSurvival(1000 - Min(t, 950), Max(80 - a, 0))}

\* years = max(85-age, 0); annual = 1-(1-p10)**(1/10); the result is
\* round(min((1-(1-annual)**years)*100, 95.0), 1), and (1-annual)**years is
\* (1-p10)**(years/10).
estimate_lifetime_risk(a, t) ==
    {Min(1000 - m, 950) :
        m \in RoundedSurvival(1000 - Min(t, 950), Max(85 - a, 0))}

\* "if x": None and 0.0 are false.
Truthy(x) == x # None /\ x # Some(0)

\* round(arr/r10*100, 1), a tie rounding either way; dividing by an r10
\* of 0 raises ZeroDivisionError.
RoundedRatio(d, t) ==
    IF t = 0 THEN {[rrr |-> None, error |-> "ZeroDivisionError"]}
    ELSE LET n == (2000 * d + t) \div (2 * t)
         IN  IF (2000 * d + t) % (2 * t) = 0
             THEN {[rrr |-> Some(n - 1), error |-> "none"],
                   [rrr |-> Some(n), error |-> "none"]}
             ELSE {[rrr |-> Some(n), error |-> "none"]}

\* A slip: the ARR is tested against None only, "if arr10 is not None".
RrrUnlessNone(arr, t) ==
    IF arr # None THEN RoundedRatio(arr[1], t)
    ELSE {[rrr |-> None, error |-> "none"]}

\* Line 187: round(arr10/r10*100,1) if arr10 else None.
Rrr(arr, t) ==
    IF Truthy(arr) THEN RoundedRatio(arr[1], t)
    ELSE {[rrr |-> None, error |-> "none"]}

\* Line 186.
Arr(a, t, l) == IF a < 85 THEN Some(t - l) ELSE None

\* Ages from the Age widget's range, 30 to 90 (line 122).
Ages == {30, 41, 52, 60, 65, 70, 74, 75, 76, 77, 80, 83, 84, 85, 86, 90}

\* raw takes the values k/RawSamples, k in 0..RawSamples.
RawSamples == 400

\* and, for the smallest risks, every value up to MaxFineRaw/10000.
MaxFineRaw == 30

Raws == {(10000 * k) \div RawSamples : k \in 0..RawSamples} \cup 0..MaxFineRaw

\* Ten-year risks a caller passes to the converters directly: 0%, 1%, ...
MaxDirectPercent == 100

DirectInputs == {10 * k : k \in 0..MaxDirectPercent}

InitRisk ==
    /\ age \in Ages
    /\ \/ pc = "app" /\ raw \in Raws /\ r10 = None
       \/ pc = "direct" /\ raw = 0 /\ r10 \in {Some(t) : t \in DirectInputs}
    /\ r5 = None /\ rlt = None /\ lifetime = None /\ chart_y = None
    /\ arr10 = None /\ rrr10 = None
    /\ WizardIdle
    /\ LdlIdle

\* The results step, lines 169-188, for a session holding age.
ResultsStep ==
    /\ pc = "app"
    /\ \E t \in estimate_10y_risk(raw) :
       \E f \in convert_5yr(t) :
       \E l \in estimate_lifetime_risk(age, t) :
          /\ r10' = Some(t)
          /\ r5' = Some(f)
          /\ rlt' = Some(l)
          /\ lifetime' = IF age >= 85 THEN None ELSE Some(l)
          /\ chart_y' = IF age < 85 THEN Some(l) ELSE None
          /\ arr10' = Arr(age, t, l)
          /\ \E res \in Rrr(Arr(age, t, l), t) :
                rrr10' = res.rrr /\ error' = res.error
    /\ pc' = "done"
    /\ UNCHANGED <<age, raw, session, shown, clicked, ldlVars>>

\* A caller converts a ten-year risk of its own with both converters.
Convert ==
    /\ pc = "direct"
    /\ r5' \in {Some(f) : f \in convert_5yr(r10[1])}
    /\ rlt' \in {Some(l) : l \in estimate_lifetime_risk(age, r10[1])}
    /\ pc' = "converted"
    /\ UNCHANGED <<age, raw, r10, lifetime, chart_y, arr10, rrr10, wizardVars, ldlVars>>

NextRisk == ResultsStep \/ Convert

SpecRisk == InitRisk /\ [][NextRisk]_vars

-----------------------------------------------------------------------------
(* Claims about the risk functions and the results step, under SpecRisk.   *)

Called == pc \in {"done", "converted"}

\* C4: at an age of 85 or more the lifetime risk is "not applicable" and
\* never a number: estimate_lifetime_risk's result is, and so is every use
\* the results step makes of it (the text, the chart bar, the ARR).
C4_LifetimeNotApplicableFrom85 ==
    (Called /\ age >= 85) =>
        /\ rlt = None
        /\ pc = "done" => (lifetime = None /\ chart_y = None /\ arr10 = None)

\* C5 as stated: for every age in 30..84 and every ten-year risk in
\* [0, 95.0] the lifetime risk is at least the ten-year risk.
C5_LifetimeAtLeastTenYear ==
    (Called /\ age \in 30..84 /\ r10[1] <= 950) => rlt[1] >= r10[1]

\* C5 as amended: for every age in 30..75, where the horizon 85 - age is
\* ten years or more, and every one-decimal ten-year risk in [0, 95.0], the
\* lifetime risk is at least the ten-year risk.
C5_LifetimeAtLeastTenYearTo75 ==
    (Called /\ age \in 30..75 /\ r10[1] <= 950) => rlt[1] >= r10[1]

\* At 75 the horizon is the ten years themselves.
C5_Witness ==
    /\ pc = "done" /\ age = 75 /\ r10 = Some(200) /\ rlt = Some(200)

\* C6: every risk percentage returned lies in [0, 95.0]: the ten-year risk,
\* and the five-year and lifetime risks for every ten-year input and age.
C6_RisksWithinRange ==
    /\ pc = "done" => r10[1] \in 0..950
    /\ Called => (r5[1] \in 0..950 /\ rlt[1] \in 0..950)

\* The caps acted: raw = 1 gives 95.0, and at 30 the lifetime risk of it
\* is capped to 95.0 too.
C6_Witness ==
    /\ pc = "done" /\ raw = 10000 /\ age = 30
    /\ r10 = Some(950) /\ rlt = Some(950)

\* C7: for the ten-year risk estimate_10y_risk produced, the five-year
\* risk is at most the ten-year risk, rounding included.
C7_FiveYearAtMostTenYear == pc = "done" => r5[1] <= r10[1]

\* A ten-year risk of 0.1% has a five-year risk of 0.05% that rounds up to
\* 0.1%: the two are equal.
C7_Witness == pc = "done" /\ r10 = Some(1) /\ r5 = Some(1)

\* C8: in the results step the RRR is None whenever the ARR is None or the
\* ten-year risk is 0, no division by a ten-year risk of 0 is performed,
\* and the ARR, when it is not None, is ten-year risk minus lifetime risk.
C8_RrrNotApplicable ==
    pc = "done" =>
        /\ (arr10 = None \/ r10 = Some(0)) => rrr10 = None
        /\ error # "ZeroDivisionError"
        /\ arr10 # None => arr10 = Some(r10[1] - rlt[1])

\* A ten-year risk of 0 below 85: the ARR is 0.0, which is false, and no
\* division is made.
C8_Witness ==
    /\ pc = "done" /\ age < 85 /\ r10 = Some(0)
    /\ arr10 = Some(0) /\ rrr10 = None /\ error = "none"

-----------------------------------------------------------------------------
(* The wizard: lines 34-67 and 118-207.                                    *)

steps == <<"Profile", "Labs", "Therapies", "Results">>

\* The defaults block; real-valued defaults in hundredths (3.0 -> 300).
defaults ==
    [age |-> 60, sex |-> "Male", weight |-> 7500, height |-> 17000,
     smoker |-> FALSE, diabetes |-> FALSE, egfr |-> 90,
     tc |-> 520, hdl |-> 130, ldl0 |-> 300, crp |-> 250,
     hba1c |-> 700, tg |-> 120,
     pre_stat |-> "None", pre_ez |-> FALSE, pre_bemp |-> FALSE,
     new_stat |-> "None", new_ez |-> FALSE, new_bemp |-> FALSE,
     sbp |-> 140]

\* f extended by key k with value v.
Put(f, k, v) == [x \in DOMAIN f \cup {k} |-> IF x = k THEN v ELSE f[x]]

\* Lines 36-37 and 65-67: a field is set only when it is not in the session.
InitSession(s) ==
    [k \in DOMAIN s \cup DOMAIN defaults \cup {"step"} |->
        IF k \in DOMAIN s THEN s[k]
        ELSE IF k = "step" THEN 0 ELSE defaults[k]]

\* go_next and go_back, on the session.
go_next(s) == IF s["step"] < 3 THEN [s EXCEPT !["step"] = @ + 1] ELSE s

go_back(s) == IF s["step"] > 0 THEN [s EXCEPT !["step"] = @ - 1] ELSE s

\* The statements of each step's render block that touch the session, in
\* execution order. "rw": the field is read for the widget's current value
\* and then assigned the widget's result; "w": assigned only (the select
\* boxes take index=0, not the field); "r": read only.
RenderOps(st) ==
    CASE st = 0 ->
            << <<"rw", "age">>, <<"rw", "sex">>, <<"rw", "weight">>,
               <<"rw", "height">>, <<"r", "weight">>, <<"r", "height">>,
               <<"rw", "smoker">>, <<"rw", "diabetes">>, <<"rw", "egfr">> >>
      [] st = 1 ->
            << <<"rw", "tc">>, <<"rw", "hdl">>, <<"rw", "ldl0">>,
               <<"rw", "crp">>, <<"rw", "hba1c">>, <<"rw", "tg">> >>
      [] st = 2 ->
            << <<"w", "pre_stat">>, <<"rw", "pre_ez">>, <<"rw", "pre_bemp">>,
               <<"w", "new_stat">>, <<"rw", "new_ez">>, <<"rw", "new_bemp">>,
               <<"r", "ldl0">>, <<"r", "pre_stat">>, <<"r", "pre_ez">>,
               <<"r", "pre_bemp">>, <<"r", "new_stat">>, <<"r", "new_ez">>,
               <<"r", "new_bemp">>,
               <<"rw", "pcsk9">>, <<"rw", "inclisiran">> >>
      [] OTHER ->
            << <<"rw", "sbp">>, <<"r", "age">>, <<"r", "sex">>, <<"r", "sbp">>,
               <<"r", "tc">>, <<"r", "hdl">>, <<"r", "smoker">>,
               <<"r", "diabetes">>, <<"r", "egfr">>, <<"r", "crp">>,
               <<"r", "pre_stat">>, <<"r", "pre_ez">>, <<"r", "pre_bemp">> >>

\* Values a user can give each widget (a sample of the widget's range).
WidgetValues(w) ==
    CASE w = "age" -> {60, 85}
      [] w = "ldl0" -> {300, 600}
      [] w = "pre_stat" -> {"None", "Atorvastatin 80 mg", "Rosuvastatin 20 mg"}
      [] w = "new_stat" -> {"None", "Atorvastatin 80 mg"}
      [] w \in {"smoker", "pre_ez", "new_ez", "pcsk9", "inclisiran"} -> BOOLEAN
      [] w = "sbp" -> {140, 160}
      [] w \in {"Back", "Next"} -> {TRUE}
      [] OTHER -> {defaults[w]}

\* What the widget for field k returns in a run triggered by setting widget
\* w to v: the new value for the widget touched; otherwise the value it
\* holds, which for a select box rendered anew is option 0 and for every
\* other widget is the value= argument read from the session.
WidgetResult(s, k, w, v, wasShown) ==
    IF k = w THEN v
    ELSE IF k \in {"pre_stat", "new_stat"} /\ k \notin wasShown THEN "None"
    ELSE s[k]

\* Runs ops[i..] on session s. The result is the session, the widgets
\* rendered and the exception raised: reading a field that is not in the
\* session raises AttributeError and ends the script run there.
RECURSIVE Render(_, _, _, _, _, _, _)
Render(ops, i, s, out, w, v, wasShown) ==
    IF i > Len(ops) THEN [session |-> s, shown |-> out, error |-> "none"]
    ELSE LET kind == ops[i][1]
             k    == ops[i][2]
         IN  IF kind \in {"r", "rw"} /\ k \notin DOMAIN s
             THEN [session |-> s, shown |-> out, error |-> "AttributeError"]
             ELSE IF kind = "r"
             THEN Render(ops, i + 1, s, out, w, v, wasShown)
             ELSE Render(ops, i + 1,
                         Put(s, k, WidgetResult(s, k, w, v, wasShown)),
                         out \cup {k}, w, v, wasShown)

\* Lines 201-207, reached only when the render block raised nothing: both
\* buttons are rendered, and the one clicked runs its handler.
Navigate(r, w) ==
    IF r.error # "none" THEN r
    ELSE [session |-> IF w = "Back" /\ r.session["step"] > 0
                          THEN go_back(r.session)
                      ELSE IF w = "Next" /\ r.session["step"] < 3
                          THEN go_next(r.session)
                      ELSE r.session,
          shown |-> r.shown \cup {"Back", "Next"},
          error |-> "none"]

\* One whole script run, triggered by the user setting widget w to v.
ScriptRun(s, w, v, wasShown) ==
    LET s0 == InitSession(s)
    IN  Navigate(Render(RenderOps(s0["step"]), 1, s0, {}, w, v, wasShown), w)

\* The first run of a new session: no widget has been touched.
Init ==
    LET r == ScriptRun(<<>>, "none", TRUE, {})
    IN  /\ session = r.session
        /\ shown = r.shown
        /\ error = r.error
        /\ clicked = "none"
        /\ LdlIdle
        /\ RiskIdle

\* The user changes a widget that is on the page, or clicks a button that
\* is: the script runs again from the top.
Interact(w, v) ==
    /\ w \in shown
    /\ LET r == ScriptRun(session, w, v, shown)
       IN  /\ session' = r.session
           /\ shown' = r.shown
           /\ error' = r.error
    /\ clicked' = w
    /\ UNCHANGED <<ldlVars, riskVars>>

Next == \E w \in shown : \E v \in WidgetValues(w) : Interact(w, v)

Spec == Init /\ [][Next]_vars

-----------------------------------------------------------------------------
(* Claims about the wizard, under Spec.                                    *)

step == session["step"]

\* C9: the step counter stays in 0..3; a click on Next adds exactly 1 to it
\* below 3 and leaves it at 3, a click on Back takes exactly 1 from it
\* above 0 and leaves it at 0.
C9_NavigationSteps ==
    [][/\ step' \in 0..3
       /\ clicked' = "Next" => step' = (IF step < 3 THEN step + 1 ELSE step)
       /\ clicked' = "Back" => step' = (IF step > 0 THEN step - 1 ELSE step)
      ]_vars

\* C10: no script run reads a session field that was never set: none ends
\* in the AttributeError such a read raises.
C10_FieldsSetBeforeRead == error # "AttributeError"

====
